---- MODULE Spec2Model ----
(***************************************************************************)
(* Model of the chat-completion relay: the per-identity request quota kept *)
(* in Deno KV (checkRateLimit), the primary/fallback provider policy       *)
(* (handleAPIRequest), the route handlers of the quota-tracked variants    *)
(* and the per-message cache annotation of the caching variants.           *)
(*                                                                         *)
(* Every `await` of the source is a suspension point: the handler of one   *)
(* request runs from one await to the next as a single action, and the     *)
(* actions of different requests interleave freely.                        *)
(***************************************************************************)
EXTENDS Integers, Sequences, FiniteSets, Bags, TLC

(***************************************************************************)
(* Bounds of the model.                                                    *)
(***************************************************************************)
\* number of requests received in a run
NumRequests == 3
\* API_CONFIG.anthropic.maxRequests / MAX_REQUESTS, scaled down from 78
AnthropicMaxRequests == 2
\* API_CONFIG.openai.maxRequests, scaled down from 150
OpenAIMaxRequests == 1
\* longest message sequence handed to the message transformation
MaxMessages == 3
\* most chunks a provider stream emits
MaxChunks == 3

Providers == {"anthropic", "openai"}
\* body.email: "" stands for a missing (falsy) email
Emails == {"", "a@x", "b@x"}
\* the deployed program: part_002/part_003 (one provider) or part_001 (two)
Variants == {"single", "dual"}

VARIABLES
    variant,    \* which program is deployed
    kv,         \* the Deno KV store: a function from the keys present to their values
    reqs,       \* the requests received: a bag of records (see Requests below)
    arrival,    \* sequential runs: the request handled last and the store it found
    messages,   \* body.messages handed to the message transformation
    emitted,    \* the messages of the provider payload, <<>> before the transformation
    handler,    \* which transformation ran: "none", "main", "part_000", "part_003"
    flagLeft, \* the flag of the annotation loop as its last run left it
    earlier,    \* the previous request to the transformation and its payload
    sse         \* the streaming handler of main.ts: its position, the provider's
                \* stream, the client's event channel and the response

vars == <<variant, kv, reqs, arrival, messages, emitted, handler, flagLeft,
          earlier, sse>>
transformVars == <<messages, emitted, handler, flagLeft, earlier>>
streamVars == <<sse>>
quotaVars == <<variant, kv, reqs, arrival>>

(***************************************************************************)
(* The quota store.                                                        *)
(***************************************************************************)
\* const key = ["rate_limit", provider, email]  (["rate_limit", email] in the
\* one-provider variants, whose only provider is anthropic)
KeyWithoutEmail(provider, email) == <<"rate_limit", provider>>

Key(provider, email) == <<"rate_limit", provider, email>>

\* API_CONFIG[provider].maxRequests
MaxRequests(provider) ==
    IF provider = "anthropic" THEN AnthropicMaxRequests ELSE OpenAIMaxRequests

\* (await kv.get(key)).value: <<>> is null (key absent), <<v>> the stored value
KvGetValue(key) == IF key \in DOMAIN kv THEN <<kv[key]>> ELSE <<>>

\* !currentCount.value
Falsy(value) == value = <<>> \/ value[1] = 0

\* the store after atomic.set(key, value).commit(): an unconditional write
\* (the atomic operation carries no check() on the version read before)
KvSet(store, key, value) ==
    [k \in DOMAIN store \cup {key} |-> IF k = key THEN value ELSE store[k]]

NextCountByTwo(currentCount) == IF Falsy(currentCount) THEN 1 ELSE currentCount[1] + 2

\* the value checkRateLimit writes after having read currentCount
NextCount(currentCount) == IF Falsy(currentCount) THEN 1 ELSE currentCount[1] + 1

\* the stored counter as a number, 0 when the key is absent
Counter(provider, email) ==
    IF Key(provider, email) \in DOMAIN kv THEN kv[Key(provider, email)] ELSE 0

(***************************************************************************)
(* Provider outcomes and responses.                                        *)
(***************************************************************************)
\* what an awaited provider call throws; status 0 is an error without a status
ProviderErrors ==
    { [status |-> 429, name |-> "RateLimitError", message |-> "rate_limit_error"],
      [status |-> 500, name |-> "InternalServerError", message |-> "api_error"],
      [status |-> 0, name |-> "", message |-> ""] }

NoResponse == [status |-> 0, kind |-> "none", message |-> "", type |-> "", provider |-> ""]

\* ctx.response.status = 400; ctx.response.body = {error: {...}}
ValidationResponse ==
    [status |-> 400, kind |-> "error", message |-> "Email is required",
     type |-> "ValidationError", provider |-> ""]

\* ctx.response.status = 429; ctx.response.body = RATE_LIMIT_ERROR
RATE_LIMIT_ERROR ==
    [status |-> 429, kind |-> "error",
     message |-> "Message quota exceeded. Maximum MAX_REQUESTS requests allowed per user.",
     type |-> "MessageQuotaExceeded", provider |-> ""]

\* throw new Error("Rate limit exceeded for both Anthropic and OpenAI")
BothExceededError ==
    [status |-> 0, name |-> "Error",
     message |-> "Rate limit exceeded for both Anthropic and OpenAI"]

\* the catch block of the route handler
CatchResponse(error) ==
    [status |-> IF error.status # 0 THEN error.status ELSE 500,
     kind |-> "error",
     message |-> IF error.message # "" THEN error.message ELSE "Internal server error",
     type |-> IF error.name # "" THEN error.name ELSE "UnknownError",
     provider |-> ""]

\* ctx.response.body = {...result.response, provider: result.provider}; the status
\* is not assigned on this path (0)
TaggedResponse(provider) ==
    [status |-> 0, kind |-> "ok", message |-> "", type |-> "", provider |-> provider]

\* ctx.response.body = response (one-provider variants: no provider tag)
PlainResponse ==
    [status |-> 0, kind |-> "ok", message |-> "", type |-> "", provider |-> ""]

(***************************************************************************)
(* Requests.                                                               *)
(*                                                                         *)
(* The handlers in flight differ only in their locals, so the requests     *)
(* are kept as a bag of records.  A record holds the position of the       *)
(* handler (pc: "get" at kv.get, "commit" at commit(), "create" at the     *)
(* provider call, "done" after its return), its locals, the log of the     *)
(* provider calls it made and the response it set.  id is 0 except in      *)
(* sequential runs, which number the requests in order of arrival.         *)
(***************************************************************************)
NoError == [status |-> 0, name |-> "", message |-> ""]

\* one entry of a request's log of provider calls: the provider invoked and
\* how the call ended ("pending" while awaited, then "ok" or "error")
Invocation(provider) == [provider |-> provider, result |-> "pending", error |-> NoError]

\* a request as it is received
NewRequest(id, email) ==
    [id |-> id, pc |-> "get", email |-> email, provider |-> "anthropic",
     currentCount |-> <<>>,
     withinAnthropicLimit |-> "unset", withinOpenAILimit |-> "unset",
     calls |-> <<>>, response |-> NoResponse]

Handling == BagToSet(reqs)

\* the handler of request rec runs up to its next await (or its return)
Becomes(rec, next) == reqs' = (reqs (-) SetToBag({rec})) (+) SetToBag({next})

\* the comparison with > in place of >=
AtLimitOffByOne(currentCount, provider) == currentCount[1] > MaxRequests(provider)

\* currentCount.value >= maxRequests
AtLimit(currentCount, provider) == currentCount[1] >= MaxRequests(provider)

\* the awaited provider call of request rec has ended
Ended(rec, result, error) ==
    [rec.calls EXCEPT ![Len(rec.calls)] = [@ EXCEPT !.result = result, !.error = error]]

\* the handler without the email check
PostUnvalidated(id, email) ==
    /\ BagCardinality(reqs) < NumRequests
    /\ reqs' = reqs (+) SetToBag({NewRequest(id, email)})
    /\ UNCHANGED <<variant, kv, transformVars, streamVars>>

\* POST /: the body is read and the email validated; a request with an email
\* goes on to checkRateLimit for anthropic and suspends at kv.get
Post(id, email) ==
    /\ BagCardinality(reqs) < NumRequests
    /\ IF email = ""
       THEN reqs' = reqs (+) SetToBag({[NewRequest(id, email) EXCEPT
                                           !.pc = "done",
                                           !.response = ValidationResponse]})
       ELSE reqs' = reqs (+) SetToBag({NewRequest(id, email)})
    /\ UNCHANGED <<variant, kv, transformVars, streamVars>>

RejectSingleGoesOn(rec) ==
    Becomes(rec, [rec EXCEPT !.pc = "get", !.withinAnthropicLimit = "false",
                             !.provider = "openai"])

\* checkRateLimit returned false in a one-provider variant: 429 and return
RejectSingle(rec) ==
    Becomes(rec, [rec EXCEPT !.pc = "done", !.withinAnthropicLimit = "false",
                             !.response = RATE_LIMIT_ERROR])

RejectAnthropicGivesUp(rec) ==
    Becomes(rec, [rec EXCEPT !.pc = "done", !.withinAnthropicLimit = "false",
                             !.response = RATE_LIMIT_ERROR])

RejectAnthropicInvokes(rec) ==
    Becomes(rec, [rec EXCEPT !.pc = "create", !.withinAnthropicLimit = "false",
                             !.calls = Append(@, Invocation("anthropic"))])

\* checkRateLimit(body.email, "anthropic") returned false: on to the openai check
RejectAnthropic(rec) ==
    Becomes(rec, [rec EXCEPT !.pc = "get", !.withinAnthropicLimit = "false",
                             !.provider = "openai"])

RejectOpenAISilently(rec) ==
    Becomes(rec, [rec EXCEPT !.pc = "done", !.withinOpenAILimit = "false"])

\* checkRateLimit(body.email, "openai") returned false: the Error is thrown and
\* caught by the route handler
RejectOpenAI(rec) ==
    Becomes(rec, [rec EXCEPT !.pc = "done", !.withinOpenAILimit = "false",
                             !.response = CatchResponse(BothExceededError)])

\* kv.get(key) returns: the value read decides between the set and return false
KvGet(rec) ==
    /\ rec.pc = "get"
    /\ LET currentCount == KvGetValue(Key(rec.provider, rec.email))
       IN IF Falsy(currentCount) \/ ~AtLimit(currentCount, rec.provider)
          THEN Becomes(rec, [rec EXCEPT !.pc = "commit", !.currentCount = currentCount])
          ELSE IF variant = "single" THEN RejectSingle(rec)
          ELSE IF rec.provider = "anthropic" THEN RejectAnthropic(rec)
          ELSE RejectOpenAI(rec)
    /\ UNCHANGED <<variant, kv, arrival, transformVars, streamVars>>

\* atomic.set(key, ...).commit() returns: checkRateLimit returns true, the
\* handler invokes the provider and suspends at the call
Commit(rec) ==
    /\ rec.pc = "commit"
    /\ kv' = KvSet(kv, Key(rec.provider, rec.email), NextCount(rec.currentCount))
    /\ Becomes(rec, [rec EXCEPT !.pc = "create", !.currentCount = <<>>,
                                !.calls = Append(@, Invocation(rec.provider)),
                                !.withinAnthropicLimit =
                                    IF rec.provider = "anthropic" THEN "true" ELSE @,
                                !.withinOpenAILimit =
                                    IF rec.provider = "openai" THEN "true" ELSE @])
    /\ UNCHANGED <<variant, arrival, transformVars, streamVars>>

CreateReturnsTaggedPrimary(rec) ==
    /\ rec.pc = "create"
    /\ Becomes(rec, [rec EXCEPT !.pc = "done", !.calls = Ended(rec, "ok", NoError),
                                !.response = IF variant = "single" THEN PlainResponse
                                             ELSE TaggedResponse("anthropic")])
    /\ UNCHANGED <<variant, kv, arrival, transformVars, streamVars>>

\* the provider call returns a response, which becomes the body
CreateReturns(rec) ==
    /\ rec.pc = "create"
    /\ Becomes(rec, [rec EXCEPT !.pc = "done", !.calls = Ended(rec, "ok", NoError),
                                !.response = IF variant = "single" THEN PlainResponse
                                             ELSE TaggedResponse(rec.provider)])
    /\ UNCHANGED <<variant, kv, arrival, transformVars, streamVars>>

\* request rec went on to the openai check after its anthropic call threw
FallenThrough(rec, error) ==
    [rec EXCEPT !.pc = "get", !.provider = "openai",
                !.calls = Ended(rec, "error", error)]

\* the error of request rec's provider call reached the route handler's catch
Caught(rec, error) ==
    [rec EXCEPT !.pc = "done", !.calls = Ended(rec, "error", error),
                !.response = CatchResponse(error)]

\* the store with the counter of request rec's current key taken back by one
Refunded(rec) ==
    KvSet(kv, Key(rec.provider, rec.email), Counter(rec.provider, rec.email) - 1)

\* every error of anthropic falls through to openai
CreateThrowsAlwaysFallsThrough(rec, error) ==
    /\ rec.pc = "create"
    /\ IF variant = "dual" /\ rec.provider = "anthropic"
       THEN Becomes(rec, FallenThrough(rec, error))
       ELSE Becomes(rec, Caught(rec, error))
    /\ UNCHANGED <<variant, kv, arrival, transformVars, streamVars>>

\* the unit consumed for anthropic is given back when anthropic answers 429
CreateThrowsRefundsPrimary(rec, error) ==
    /\ rec.pc = "create"
    /\ IF variant = "dual" /\ rec.provider = "anthropic" /\ error.status = 429
       THEN Becomes(rec, FallenThrough(rec, error)) /\ kv' = Refunded(rec)
       ELSE Becomes(rec, Caught(rec, error)) /\ kv' = kv
    /\ UNCHANGED <<variant, arrival, transformVars, streamVars>>

\* the unit consumed is given back when the error reaches the catch block
CreateThrowsRollsBack(rec, error) ==
    /\ rec.pc = "create"
    /\ IF variant = "dual" /\ rec.provider = "anthropic" /\ error.status = 429
       THEN Becomes(rec, FallenThrough(rec, error)) /\ kv' = kv
       ELSE Becomes(rec, Caught(rec, error)) /\ kv' = Refunded(rec)
    /\ UNCHANGED <<variant, arrival, transformVars, streamVars>>

\* the provider call throws: a 429 of anthropic falls through to the openai
\* check in the two-provider variant, any other error reaches the route
\* handler's catch block
CreateThrows(rec, error) ==
    /\ rec.pc = "create"
    /\ IF variant = "dual" /\ rec.provider = "anthropic" /\ error.status = 429
       THEN Becomes(rec, FallenThrough(rec, error))
       ELSE Becomes(rec, Caught(rec, error))
    /\ UNCHANGED <<variant, kv, arrival, transformVars, streamVars>>

(***************************************************************************)
(* The message transformation.                                             *)
(***************************************************************************)
Roles == {"user", "assistant"}
Contents == {"hi", "bye"}

\* one element of body.messages; the cacheable flag may be left out of the JSON
Messages ==
    [role : Roles, content : Contents, cacheable : BOOLEAN]
        \cup [role : Roles, content : Contents]

RECURSIVE SeqsUpTo(_, _)
SeqsUpTo(S, n) ==
    IF n = 0 THEN {<<>>}
    ELSE LET shorter == SeqsUpTo(S, n - 1)
         IN shorter \cup {Append(q, x) : q \in {t \in shorter : Len(t) = n - 1}, x \in S}

\* message.cacheable as a condition: a missing flag is undefined, hence falsy
Cacheable(message) == "cacheable" \in DOMAIN message /\ message.cacheable

\* {role, content, cache_control: {type: "ephemeral"}}
Annotated(message) ==
    [role |-> message.role, content |-> message.content, cache_control |-> "ephemeral"]

\* {role, content}
Plain(message) == [role |-> message.role, content |-> message.content]

\* the for loop over messages, from the message at position i on, with the
\* loop's cacheEnabled and the cacheableMessages pushed so far
RECURSIVE CacheLoop(_, _, _, _)
CacheLoop(msgs, i, cacheEnabled, cacheableMessages) ==
    IF i > Len(msgs) THEN cacheableMessages
    ELSE IF Cacheable(msgs[i]) /\ cacheEnabled
         THEN CacheLoop(msgs, i + 1, cacheEnabled,
                        Append(cacheableMessages, Annotated(msgs[i])))
         ELSE CacheLoop(msgs, i + 1, FALSE,
                        Append(cacheableMessages, Plain(msgs[i])))

\* the loop's cacheEnabled when the loop over msgs, entered at position i with
\* the flag given, has ended
RECURSIVE CacheEnabledAfter(_, _, _)
CacheEnabledAfter(msgs, i, flag) ==
    IF i > Len(msgs) THEN flag
    ELSE IF Cacheable(msgs[i]) /\ flag
         THEN CacheEnabledAfter(msgs, i + 1, flag)
         ELSE CacheEnabledAfter(msgs, i + 1, FALSE)

CacheableMessagesEachFlag(msgs) ==
    [i \in 1..Len(msgs) |->
        IF Cacheable(msgs[i]) THEN Annotated(msgs[i]) ELSE Plain(msgs[i])]

CacheableMessagesCarried(msgs) == CacheLoop(msgs, 1, flagLeft, <<>>)

\* const cacheableMessages = []; let cacheEnabled = true; for (...) {...}
CacheableMessages(msgs) == CacheLoop(msgs, 1, TRUE, <<>>)

\* body.system of the two-provider variant
System == "be brief"

\* transformMessagesForOpenAI: the system prompt as first message, then every
\* message reduced to role and content
TransformMessagesForOpenAI(msgs, system) ==
    <<[role |-> "system", content |-> system]>>
        \o [i \in 1..Len(msgs) |-> Plain(msgs[i])]

\* no request was handled before the current one
NoEarlier == [handler |-> "none", messages |-> <<>>, emitted |-> <<>>]

\* every request of one deployment reaches the same handler
Deployed(name) == earlier = NoEarlier \/ earlier.handler = name

\* messages.map((message, index) => message.cacheable ? {..., cache_control} : {...})
TransformedMessages(msgs) ==
    [i \in 1..Len(msgs) |->
        IF Cacheable(msgs[i]) THEN Annotated(msgs[i]) ELSE Plain(msgs[i])]

\* the handler of main.ts builds the payload of its provider call
TransformMain ==
    /\ handler = "none"
    /\ Deployed("main")
    /\ handler' = "main"
    /\ emitted' = CacheableMessages(messages)
    /\ flagLeft' = CacheEnabledAfter(messages, 1, TRUE)
    /\ UNCHANGED <<messages, earlier, quotaVars, streamVars>>

\* the handler of part_000 builds the payload of its provider call
TransformPart000 ==
    /\ handler = "none"
    /\ Deployed("part_000")
    /\ handler' = "part_000"
    /\ emitted' = CacheableMessages(messages)
    /\ flagLeft' = CacheEnabledAfter(messages, 1, TRUE)
    /\ UNCHANGED <<messages, earlier, quotaVars, streamVars>>

\* the handler of part_003 builds the payload of its provider call
TransformPart003 ==
    /\ handler = "none"
    /\ Deployed("part_003")
    /\ handler' = "part_003"
    /\ emitted' = TransformedMessages(messages)
    /\ UNCHANGED <<messages, flagLeft, earlier, quotaVars, streamVars>>

\* handleAPIRequest of part_001 builds the payload of its openai call
TransformPart001 ==
    /\ handler = "none"
    /\ Deployed("part_001")
    /\ handler' = "part_001"
    /\ emitted' = TransformMessagesForOpenAI(messages, System)
    /\ UNCHANGED <<messages, flagLeft, earlier, quotaVars, streamVars>>

\* the same body is posted once more, after the quota store may have changed
PostAgain ==
    /\ handler # "none"
    /\ earlier = NoEarlier
    /\ earlier' = [handler |-> handler, messages |-> messages, emitted |-> emitted]
    /\ handler' = "none"
    /\ emitted' = <<>>
    /\ kv' \in {kv, KvSet(kv, Key("anthropic", "a@x"), 1)}
    /\ UNCHANGED <<variant, reqs, arrival, messages, flagLeft, streamVars>>

(***************************************************************************)
(* Streaming passthrough (the second handler of main.ts).                  *)
(*                                                                         *)
(* The provider's stream and the event target of the HTTP framework are    *)
(* collaborators: the provider produces chunks one at a time and then      *)
(* completes or fails; the for await loop receives them in the order       *)
(* produced; target.dispatchEvent hands one event to the client.           *)
(***************************************************************************)
Chunks == {"A", "B", "C"}

\* the handler before a request: nothing produced, no channel, no response
IdleStream ==
    [pc |-> "idle", produced |-> <<>>, ended |-> "no", taken |-> 0,
     channel |-> <<>>, target |-> "none", error |-> NoError, response |-> NoResponse]

DispatchedAhead(channel, chunk) == <<chunk>> \o channel

\* the events on the client's channel after target.dispatchEvent(chunk)
Dispatched(channel, chunk) == Append(channel, chunk)

\* POST / with stream: true: the content type is set, the event channel is
\* opened (ctx.sendEvents()) and the handler suspends at the provider call
PostStream ==
    /\ sse.pc = "idle"
    /\ sse' = [sse EXCEPT !.pc = "create", !.target = "open"]
    /\ UNCHANGED <<quotaVars, transformVars>>

\* POST / with stream: false: the handler suspends at the provider call
PostPlain ==
    /\ sse.pc = "idle"
    /\ sse' = [sse EXCEPT !.pc = "createPlain"]
    /\ UNCHANGED <<quotaVars, transformVars>>

\* the plain provider call returns: the response becomes the body
PlainReturns ==
    /\ sse.pc = "createPlain"
    /\ sse' = [sse EXCEPT !.pc = "done", !.response = PlainResponse]
    /\ UNCHANGED <<quotaVars, transformVars>>

\* the plain provider call throws: the route handler's catch block answers
PlainThrows(error) ==
    /\ sse.pc = "createPlain"
    /\ sse' = [sse EXCEPT !.pc = "done", !.error = error,
                          !.response = CatchResponse(error)]
    /\ UNCHANGED <<quotaVars, transformVars>>

\* the streaming provider call returns the stream: the loop awaits a chunk
StreamReturns ==
    /\ sse.pc = "create"
    /\ sse' = [sse EXCEPT !.pc = "iterate"]
    /\ UNCHANGED <<quotaVars, transformVars>>

\* the streaming provider call throws: the inner catch block suspends at
\* target.close()
StreamCreateThrows(error) ==
    /\ sse.pc = "create"
    /\ sse' = [sse EXCEPT !.pc = "closeThenThrow", !.error = error]
    /\ UNCHANGED <<quotaVars, transformVars>>

\* the provider produces the next chunk of its stream
Produce(chunk) ==
    /\ sse.pc = "iterate"
    /\ sse.ended = "no"
    /\ Len(sse.produced) < MaxChunks
    /\ sse' = [sse EXCEPT !.produced = Append(@, chunk)]
    /\ UNCHANGED <<quotaVars, transformVars>>

\* the provider's stream completes
ProviderCompletes ==
    /\ sse.pc = "iterate"
    /\ sse.ended = "no"
    /\ sse' = [sse EXCEPT !.ended = "complete"]
    /\ UNCHANGED <<quotaVars, transformVars>>

\* the provider's stream fails
ProviderFails(error) ==
    /\ sse.pc = "iterate"
    /\ sse.ended = "no"
    /\ sse' = [sse EXCEPT !.ended = "error", !.error = error]
    /\ UNCHANGED <<quotaVars, transformVars>>

\* for await receives the next chunk: target.dispatchEvent(chunk)
Forward ==
    /\ sse.pc = "iterate"
    /\ sse.taken < Len(sse.produced)
    /\ sse' = [sse EXCEPT !.taken = @ + 1,
                          !.channel = Dispatched(@, sse.produced[sse.taken + 1])]
    /\ UNCHANGED <<quotaVars, transformVars>>

\* for await finds the stream complete: the handler suspends at target.close()
LoopEnds ==
    /\ sse.pc = "iterate"
    /\ sse.taken = Len(sse.produced)
    /\ sse.ended = "complete"
    /\ sse' = [sse EXCEPT !.pc = "close"]
    /\ UNCHANGED <<quotaVars, transformVars>>

\* for await throws the stream's error: the inner catch block suspends at
\* target.close()
LoopThrows ==
    /\ sse.pc = "iterate"
    /\ sse.taken = Len(sse.produced)
    /\ sse.ended = "error"
    /\ sse' = [sse EXCEPT !.pc = "closeThenThrow"]
    /\ UNCHANGED <<quotaVars, transformVars>>

\* target.close() returns after the loop: the handler returns
CloseReturns ==
    /\ sse.pc = "close"
    /\ sse' = [sse EXCEPT !.pc = "done", !.target = "closed"]
    /\ UNCHANGED <<quotaVars, transformVars>>

\* target.close() returns in the inner catch block: the error is thrown again
\* and the route handler's catch block sets the status and the body
CloseThenThrow ==
    /\ sse.pc = "closeThenThrow"
    /\ sse' = [sse EXCEPT !.pc = "done", !.target = "closed",
                          !.response = CatchResponse(sse.error)]
    /\ UNCHANGED <<quotaVars, transformVars>>

(***************************************************************************)
(* Specifications.                                                         *)
(***************************************************************************)
InitQuota ==
    /\ variant \in Variants
    /\ kv = << >>
    /\ reqs = EmptyBag
    /\ arrival = [request |-> 0, store |-> << >>]

Init ==
    /\ InitQuota
    /\ messages = <<>>
    /\ emitted = <<>>
    /\ handler = "none"
    /\ flagLeft = TRUE
    /\ earlier = NoEarlier
    /\ sse = IdleStream

\* the kv.get of some request returns
Getting == \E rec \in Handling : KvGet(rec)

\* the commit() of some request returns
Committing == \E rec \in Handling : Commit(rec)

\* the provider call of some request returns
Returning == \E rec \in Handling : CreateReturns(rec)

\* the provider call of some request throws
Throwing == \E rec \in Handling, error \in ProviderErrors : CreateThrows(rec, error)

\* a request arrives while others may be in flight
PostConcurrent(email) == Post(0, email) /\ UNCHANGED arrival

Next ==
    \/ \E email \in Emails : PostConcurrent(email)
    \/ Getting
    \/ Committing
    \/ Returning
    \/ Throwing

\* concurrent requests against one deployment of a quota-tracked variant
Spec == Init /\ [][Next]_vars

\* the two-provider deployment
InitDual == Init /\ variant = "dual"

\* concurrent requests against the two-provider variant, where every kv.get,
\* every commit() and every provider call that a handler awaits settles
SpecLive ==
    /\ InitDual
    /\ [][Next]_vars
    /\ WF_vars(Getting)
    /\ WF_vars(Committing)
    /\ WF_vars(Returning \/ Throwing)

\* no checkRateLimit call or provider call of any request is in progress
Quiescent == \A rec \in Handling : rec.pc = "done"

\* a request arrives only when no other request is being handled; it is
\* numbered and the store it finds is noted
PostSequential(email) ==
    /\ Quiescent
    /\ Post(BagCardinality(reqs) + 1, email)
    /\ arrival' = [request |-> BagCardinality(reqs) + 1, store |-> kv]

NextSequential ==
    \/ \E email \in Emails : PostSequential(email)
    \/ Getting
    \/ Committing
    \/ Returning
    \/ Throwing

\* the same handlers with the requests one after another
SpecSequential == Init /\ [][NextSequential]_vars

InitTransform ==
    /\ InitQuota
    /\ messages \in SeqsUpTo(Messages, MaxMessages)
    /\ emitted = <<>>
    /\ handler = "none"
    /\ flagLeft = TRUE
    /\ earlier = NoEarlier
    /\ sse = IdleStream

NextTransform ==
    \/ TransformMain
    \/ TransformPart000
    \/ TransformPart003
    \/ TransformPart001
    \/ PostAgain

\* the message transformation applied to every bounded message sequence
SpecTransform == InitTransform /\ [][NextTransform]_vars

NextStream ==
    \/ PostStream
    \/ PostPlain
    \/ PlainReturns
    \/ \E error \in ProviderErrors : PlainThrows(error)
    \/ StreamReturns
    \/ \E error \in ProviderErrors : StreamCreateThrows(error)
    \/ \E chunk \in Chunks : Produce(chunk)
    \/ ProviderCompletes
    \/ \E error \in ProviderErrors : ProviderFails(error)
    \/ Forward
    \/ LoopEnds
    \/ LoopThrows
    \/ CloseReturns
    \/ CloseThenThrow

\* one request to the streaming handler of main.ts
SpecStream == Init /\ [][NextStream]_vars

(***************************************************************************)
(* Properties of the quota tracker.                                        *)
(***************************************************************************)
Identities == Emails \ {""}

Min(a, b) == IF a < b THEN a ELSE b

\* the number of requests, among those received, whose record is in S
NumberOf(S) == BagCardinality([rec \in S \cap Handling |-> reqs[rec]])

\* the result of a request's checkRateLimit call for the provider
Within(rec, provider) ==
    IF provider = "anthropic" THEN rec.withinAnthropicLimit
    ELSE rec.withinOpenAILimit

\* the requests whose checkRateLimit call on the key has returned
Returned(provider, email) ==
    {rec \in Handling : rec.email = email /\ Within(rec, provider) # "unset"}

\* the requests whose checkRateLimit call on the key has returned true
Accepted(provider, email) ==
    {rec \in Handling : rec.email = email /\ Within(rec, provider) = "true"}

\* a checkRateLimit call on the key is between its entry and its return
InProgress(provider, email) ==
    \E rec \in Handling : /\ rec.pc \in {"get", "commit"}
                          /\ rec.provider = provider
                          /\ rec.email = email

\* the counter the store held for the key when the request handled last arrived
Before(provider, email) ==
    IF Key(provider, email) \in DOMAIN arrival.store
    THEN arrival.store[Key(provider, email)] ELSE 0

\* C1: of the N checkRateLimit calls made on one key, starting from an absent
\* counter and interleaved in any way, exactly min(N, maxRequests) return true
\* and the others return false
C1_ExactlyMinAccepted ==
    \A provider \in Providers, email \in Identities :
        ~InProgress(provider, email) =>
            NumberOf(Accepted(provider, email))
                = Min(NumberOf(Returned(provider, email)), MaxRequests(provider))

\* C2: with no checkRateLimit call on a key in progress, the stored counter of
\* the key equals the number of calls on it that returned true (no lost update)
C2_CounterEqualsAccepted ==
    \A provider \in Providers, email \in Identities :
        ~InProgress(provider, email) =>
            Counter(provider, email) = NumberOf(Accepted(provider, email))

\* C3: no step of any execution lowers the counter stored for a key
C3_CounterMonotonic ==
    [][\A provider \in Providers, email \in Identities :
          Counter(provider, email)' >= Counter(provider, email)]_vars

\* C4: with the calls on a key one after another from an absent counter, after
\* k calls the counter is min(k, maxRequests) and exactly min(k, maxRequests)
\* calls returned true: the first call stores 1, a call below the maximum adds
\* 1, a call at the maximum returns false and leaves the counter as it is
C4_SequentialCounting ==
    \A provider \in Providers, email \in Identities :
        ~InProgress(provider, email) =>
            LET k == NumberOf(Returned(provider, email))
            IN /\ Counter(provider, email) = Min(k, MaxRequests(provider))
               /\ NumberOf(Accepted(provider, email)) = Min(k, MaxRequests(provider))

\* more sequential calls than the maximum were made on one anthropic key: the
\* counter stands at the maximum and a call was rejected
C4_Witness ==
    \E email \in Identities :
        /\ Quiescent
        /\ NumberOf(Returned("anthropic", email)) > AnthropicMaxRequests
        /\ Counter("anthropic", email) = AnthropicMaxRequests
        /\ \E rec \in Handling : rec.email = email /\ rec.withinAnthropicLimit = "false"

(***************************************************************************)
(* Properties of the fallback policy and of the route handlers.            *)
(***************************************************************************)
\* the anthropic call of the request ended with an error
PrimaryFailed(rec) ==
    /\ variant = "dual"
    /\ Len(rec.calls) >= 1
    /\ rec.calls[1].provider = "anthropic"
    /\ rec.calls[1].result = "error"

\* after a 429 of anthropic the handler is at, or past, the openai quota check,
\* openai is invoked once its check has passed, and the response is openai's
FellThrough(rec) ==
    /\ rec.provider = "openai"
    /\ rec.withinOpenAILimit = "true" =>
           Len(rec.calls) = 2 /\ rec.calls[2].provider = "openai"
    /\ rec.pc = "done" =>
           /\ rec.withinOpenAILimit # "unset"
           /\ rec.response \in
                 { TaggedResponse("openai"), CatchResponse(BothExceededError) }
                     \cup { CatchResponse(error) : error \in ProviderErrors }
           /\ rec.response.kind = "error" /\ rec.withinOpenAILimit = "true" =>
                  rec.response = CatchResponse(rec.calls[2].error)

\* any other error of anthropic is the response; openai was neither checked
\* nor invoked
Propagated(rec) ==
    /\ rec.pc = "done"
    /\ rec.response = CatchResponse(rec.calls[1].error)
    /\ Len(rec.calls) = 1
    /\ rec.withinOpenAILimit = "unset"

C5_Outcome ==
    \A rec \in Handling :
        PrimaryFailed(rec) =>
            IF rec.calls[1].error.status = 429 THEN FellThrough(rec) ELSE Propagated(rec)

\* a step in which a handler resumes after its provider call writes nothing to
\* the store, and a finished request takes no further step
C5_Step ==
    \A rec \in Handling :
        /\ rec.pc = "create" /\ CopiesIn(rec, reqs') < CopiesIn(rec, reqs) => kv' = kv
        /\ rec.pc = "done" => CopiesIn(rec, reqs') >= CopiesIn(rec, reqs)

\* C5: in handleAPIRequest a 429 of the anthropic call leads on to the openai
\* quota check and call; any other error of the anthropic call becomes the
\* response at once, openai is never invoked and its counter is not written
C5_PrimaryFailure == []C5_Outcome /\ [][C5_Step]_vars

\* one request's anthropic error was propagated while another request fell
\* through after a 429 and was answered by openai
C5_Witness ==
    \E r1, r2 \in Handling :
        /\ PrimaryFailed(r1) /\ r1.calls[1].error.status = 500
        /\ r1.pc = "done"
        /\ PrimaryFailed(r2) /\ r2.calls[1].error.status = 429
        /\ r2.response = TaggedResponse("openai")

\* the request got a 429 from anthropic and a response from openai, and no
\* request has arrived since
FallbackServed(rec) ==
    /\ variant = "dual"
    /\ arrival.request = rec.id
    /\ rec.pc = "done"
    /\ Len(rec.calls) = 2
    /\ rec.calls[1].result = "error" /\ rec.calls[1].error.status = 429
    /\ rec.calls[2].result = "ok"

\* C6 as stated: after a request that was answered by openai following a 429 of
\* anthropic, the response is tagged openai, the openai counter of the identity
\* is one higher than before the request and its anthropic counter is the same
\* as before the request
C6_PrimaryQuotaUntouched ==
    \A rec \in Handling :
        FallbackServed(rec) =>
            /\ rec.response.provider = "openai"
            /\ Counter("openai", rec.email) = Before("openai", rec.email) + 1
            /\ Counter("anthropic", rec.email) = Before("anthropic", rec.email)

\* C6 as amended: after such a request the response is tagged openai and quota
\* was consumed for both providers: the openai counter and the anthropic
\* counter of the identity are each one higher than before the request
C6_BothQuotasConsumed ==
    \A rec \in Handling :
        FallbackServed(rec) =>
            /\ rec.response.provider = "openai"
            /\ Counter("openai", rec.email) = Before("openai", rec.email) + 1
            /\ Counter("anthropic", rec.email) = Before("anthropic", rec.email) + 1

\* a request was served by openai after a 429 of anthropic, on an identity
\* that had used anthropic before
C6_Witness ==
    \E rec \in Handling :
        /\ FallbackServed(rec)
        /\ rec.response = TaggedResponse("openai")
        /\ Before("anthropic", rec.email) = 1
        /\ Counter("anthropic", rec.email) = 2

\* C7: the increment made by an accepting checkRateLimit stays in the store
\* whatever the outcome of the provider call that follows: while and after a
\* request is handled, the counter of every provider it invoked is one higher
\* than before the request
C7_ConsumeNotRolledBack ==
    \A rec \in Handling :
        arrival.request = rec.id =>
            \A i \in 1..Len(rec.calls) :
                Counter(rec.calls[i].provider, rec.email)
                    = Before(rec.calls[i].provider, rec.email) + 1

\* a request whose provider call failed has finished with an error response
\* and its increment is in the store
C7_Witness ==
    \E rec \in Handling :
        /\ arrival.request = rec.id
        /\ rec.pc = "done"
        /\ rec.response.kind = "error"
        /\ Len(rec.calls) = 1
        /\ rec.calls[1].result = "error"
        /\ Counter("anthropic", rec.email) = Before("anthropic", rec.email) + 1

\* C8: in the two-provider variant a request whose openai quota check fails
\* ends with status 429 and type MessageQuotaExceeded, openai not invoked
C8_SecondaryExhausted429 ==
    \A rec \in Handling :
        variant = "dual" /\ rec.pc = "done" /\ rec.withinOpenAILimit = "false" =>
            /\ rec.response.status = 429
            /\ rec.response.type = "MessageQuotaExceeded"
            /\ \A i \in 1..Len(rec.calls) : rec.calls[i].provider # "openai"

\* a request without email
MissingEmail(rec) == rec.email = ""

C9_Response ==
    \A rec \in Handling :
        MissingEmail(rec) =>
            /\ rec.pc = "done"
            /\ rec.response.status = 400
            /\ rec.response.kind = "error"
            /\ rec.response.message = "Email is required"
            /\ rec.response.type = "ValidationError"
            /\ rec.response.provider = ""
            /\ rec.calls = <<>>
            /\ rec.withinAnthropicLimit = "unset"
            /\ rec.withinOpenAILimit = "unset"

\* the step that receives a request without email leaves the store as it is
C9_Step ==
    \A rec \in BagToSet(reqs') :
        MissingEmail(rec) /\ CopiesIn(rec, reqs') > CopiesIn(rec, reqs) => kv' = kv

\* C9: in every quota-tracked variant a request without email is answered
\* with status 400 and the body {error: {message: "Email is required", type:
\* "ValidationError"}}; no counter changes and no provider is invoked
C9_MissingEmail == []C9_Response /\ [][C9_Step]_vars

\* a request without email was answered while the store held a counter
C9_Witness ==
    \E rec \in Handling :
        /\ MissingEmail(rec)
        /\ rec.response = ValidationResponse
        /\ \E email \in Identities : Counter("anthropic", email) >= 1

(***************************************************************************)
(* Properties of the message transformation.                               *)
(***************************************************************************)
HasMarker(message) == "cache_control" \in DOMAIN message

\* C10: in every variant that annotates messages, the annotated messages are
\* a prefix of the payload: after a message without the cache marker no
\* message carries it
C10_AnnotationsFormPrefix ==
    handler # "none" =>
        \A i, j \in 1..Len(emitted) :
            i < j /\ ~HasMarker(emitted[i]) => ~HasMarker(emitted[j])

\* C14: the payload of the cache-prefix variants is the reference operator's:
\* as long as the input, message i with the role and content of input message
\* i, and with the ephemeral marker exactly when input messages 1..i are all
\* cacheable
C14_EqualsReference ==
    handler \in {"main", "part_000"} =>
        /\ Len(emitted) = Len(messages)
        /\ \A i \in 1..Len(emitted) :
               /\ emitted[i].role = messages[i].role
               /\ emitted[i].content = messages[i].content
               /\ HasMarker(emitted[i]) <=> \A j \in 1..i : Cacheable(messages[j])
               /\ HasMarker(emitted[i]) => emitted[i].cache_control = "ephemeral"

\* a cacheable message behind one that is not was left without the marker
C14_Witness ==
    /\ handler = "main"
    /\ Len(messages) = 3
    /\ Cacheable(messages[1]) /\ ~Cacheable(messages[2]) /\ Cacheable(messages[3])
    /\ HasMarker(emitted[1]) /\ ~HasMarker(emitted[2]) /\ ~HasMarker(emitted[3])

C11_Channel ==
    /\ sse.taken <= Len(sse.produced)
    /\ sse.channel = SubSeq(sse.produced, 1, sse.taken)
    /\ sse.target = "closed" /\ sse.ended = "complete" => sse.channel = sse.produced
    /\ sse.target = "none" => sse.channel = <<>>

\* a step hands at most one event to the client, and none after the close
C11_Step ==
    /\ Len(sse'.channel) <= Len(sse.channel) + 1
    /\ sse.target = "closed" => sse'.channel = sse.channel

\* C11: for a provider stream that emits c1..cn and completes, the client
\* receives exactly n events, event k being ck, in order, one at a time, and
\* the channel is closed only after the last chunk was dispatched
C11_Passthrough == []C11_Channel /\ [][C11_Step]_vars

\* a stream of three different chunks was forwarded and the channel closed
C11_Witness ==
    /\ sse.pc = "done"
    /\ sse.target = "closed"
    /\ sse.ended = "complete"
    /\ sse.channel = <<"A", "B", "C">>

\* C12: when the provider stream fails after the channel was opened, the
\* channel is closed, the error is the last event on it, and the handler sets
\* no status and no body on the response
C12_NoFreshErrorResponse ==
    sse.pc = "done" /\ sse.target = "closed" /\ sse.ended = "error" =>
        /\ sse.response = NoResponse
        /\ sse.channel # <<>>
        /\ sse.channel[Len(sse.channel)] = sse.error.name

(***************************************************************************)
(* Further properties of the route handlers and of the quota tracker.      *)
(***************************************************************************)
\* the request's call of the provider returned a response
Served(rec, provider) ==
    \E i \in 1..Len(rec.calls) :
        rec.calls[i].provider = provider /\ rec.calls[i].result = "ok"

\* C13: every successful response of the two-provider variant is tagged with
\* the provider whose call of this request returned it: "anthropic" exactly
\* when the anthropic call returned, "openai" exactly when the openai call did
C13_ProviderTag ==
    \A rec \in Handling :
        variant = "dual" /\ rec.response.kind = "ok" =>
            /\ rec.response.provider \in Providers
            /\ \A provider \in Providers :
                   rec.response.provider = provider <=> Served(rec, provider)

\* one request was answered by anthropic and another, after anthropic had
\* been invoked for it, by openai
C13_Witness ==
    \E r1, r2 \in Handling :
        /\ variant = "dual"
        /\ r1.response = TaggedResponse("anthropic")
        /\ r2.response = TaggedResponse("openai")
        /\ Len(r2.calls) = 2

\* a request rejected by the quota of the one-provider variant has ended with
\* the 429 body, without a provider call and without another quota check
C15_Rejected ==
    \A rec \in Handling :
        variant = "single" /\ rec.withinAnthropicLimit = "false" =>
            /\ rec.pc = "done"
            /\ rec.response.status = 429
            /\ rec.response.kind = "error"
            /\ rec.response.type = "MessageQuotaExceeded"
            /\ rec.calls = <<>>
            /\ rec.provider = "anthropic"
            /\ rec.withinOpenAILimit = "unset"

\* the step that rejects a request leaves the store as it is
C15_Step ==
    \A rec \in BagToSet(reqs') :
        /\ variant = "single"
        /\ rec.withinAnthropicLimit = "false"
        /\ CopiesIn(rec, reqs') > CopiesIn(rec, reqs)
        => kv' = kv

\* C15: in the one-provider variants a request rejected by checkRateLimit
\* ends with status 429 and the MessageQuotaExceeded body; no provider is
\* invoked for it, no fallback is attempted and the rejected request does not
\* change the counter
C15_LocalRejection == []C15_Rejected /\ [][C15_Step]_vars

\* a request of the one-provider variant was rejected with the counter of its
\* identity at the maximum
C15_Witness ==
    \E rec \in Handling :
        /\ variant = "single"
        /\ rec.response = RATE_LIMIT_ERROR
        /\ Counter("anthropic", rec.email) = AnthropicMaxRequests

\* after a local rejection by the anthropic quota the request never invokes
\* anthropic and is at, or past, the openai quota check; once that check has
\* passed openai is invoked, and its response is the request's response
C17_GoesOn ==
    \A rec \in Handling :
        variant = "dual" /\ rec.withinAnthropicLimit = "false" =>
            /\ \A i \in 1..Len(rec.calls) : rec.calls[i].provider # "anthropic"
            /\ rec.provider = "openai"
            /\ rec.pc = "done" => rec.withinOpenAILimit # "unset"
            /\ rec.withinOpenAILimit = "false" => rec.calls = <<>>
            /\ rec.withinOpenAILimit = "true" =>
                   /\ Len(rec.calls) = 1
                   /\ rec.calls[1].provider = "openai"
                   /\ Counter("openai", rec.email) >= 1
                   /\ rec.calls[1].result = "ok" =>
                          rec.response = TaggedResponse("openai")

\* the step in which the openai check of such a request passes writes the
\* openai counter of its identity
C17_Step ==
    \A rec \in Handling :
        /\ variant = "dual"
        /\ rec.withinAnthropicLimit = "false"
        /\ rec.pc = "commit"
        /\ CopiesIn(rec, reqs') < CopiesIn(rec, reqs)
        => /\ Key("openai", rec.email) \in DOMAIN kv'
           /\ kv'[Key("openai", rec.email)] = NextCount(rec.currentCount)

\* C17: in the two-provider variant a request whose anthropic quota is
\* exhausted does not call anthropic and goes on to openai: it checks and
\* consumes the openai quota and, if allowed, is served by openai
C17_PrimaryExhausted == []C17_GoesOn /\ [][C17_Step]_vars

\* a request rejected by the anthropic quota was answered by openai
C17_Witness ==
    \E rec \in Handling :
        /\ variant = "dual"
        /\ rec.withinAnthropicLimit = "false"
        /\ rec.response = TaggedResponse("openai")
        /\ Counter("anthropic", rec.email) = AnthropicMaxRequests

\* every provider call of a request follows a passed quota check of that
\* provider, no provider is called twice, and openai is called only after
\* anthropic was locally rejected or answered 429
C18_Calls ==
    \A rec \in Handling :
        \A i \in 1..Len(rec.calls) :
            /\ Within(rec, rec.calls[i].provider) = "true"
            /\ \A j \in 1..Len(rec.calls) :
                   i # j => rec.calls[i].provider # rec.calls[j].provider
            /\ rec.calls[i].provider = "openai" =>
                   /\ variant = "dual"
                   /\ \/ rec.withinAnthropicLimit = "false"
                      \/ /\ i = 2
                         /\ rec.calls[1].provider = "anthropic"
                         /\ rec.calls[1].result = "error"
                         /\ rec.calls[1].error.status = 429

\* a provider call begins only in the step in which the request's own
\* checkRateLimit call for that provider and identity stores the counter and
\* returns true
C18_Step ==
    \A next \in BagToSet(reqs') :
        next.pc = "create" /\ CopiesIn(next, reqs') > CopiesIn(next, reqs) =>
            \E rec \in Handling :
                /\ rec.pc = "commit"
                /\ CopiesIn(rec, reqs') < CopiesIn(rec, reqs)
                /\ rec.id = next.id /\ rec.email = next.email
                /\ rec.provider = next.provider
                /\ next.calls = Append(rec.calls, Invocation(rec.provider))
                /\ Within(next, rec.provider) = "true"
                /\ Key(rec.provider, rec.email) \in DOMAIN kv'

\* C18: quota is enforced before the provider is called: a provider is
\* invoked for a request only after checkRateLimit returned true for that
\* provider and identity within the request, each provider at most once, and
\* openai only after anthropic was locally rejected or returned 429
C18_QuotaBeforeCall == []C18_Calls /\ [][C18_Step]_vars

\* one request called openai after a 429 of anthropic, another after the
\* local rejection by the anthropic quota
C18_Witness ==
    \E r1, r2 \in Handling :
        /\ Len(r1.calls) = 2
        /\ r1.calls[1].error.status = 429
        /\ r1.calls[2].provider = "openai"
        /\ r2.withinAnthropicLimit = "false"
        /\ Len(r2.calls) = 1
        /\ r2.calls[1].provider = "openai"

\* the counter stored under a key, 0 when the key is absent
Stored(store, key) == IF key \in DOMAIN store THEN store[key] ELSE 0

\* a step writes at most the key of the checkRateLimit call that commits in
\* it, and the outcome of a checkRateLimit call that reads in it is decided
\* by the counter of its own key
C19_Step ==
    /\ \A key \in DOMAIN kv : key \in DOMAIN kv'
    /\ \A key \in DOMAIN kv' :
           Stored(kv', key) # Stored(kv, key) \/ key \notin DOMAIN kv =>
               \E rec \in Handling :
                   /\ rec.pc = "commit"
                   /\ CopiesIn(rec, reqs') < CopiesIn(rec, reqs)
                   /\ key = <<"rate_limit", rec.provider, rec.email>>
    /\ \A rec \in Handling :
           rec.pc = "get" /\ CopiesIn(rec, reqs') < CopiesIn(rec, reqs) =>
               LET own == <<"rate_limit", rec.provider, rec.email>>
               IN \E next \in BagToSet(reqs') :
                      /\ CopiesIn(next, reqs') > CopiesIn(next, reqs)
                      /\ IF Stored(kv, own) >= MaxRequests(rec.provider)
                         THEN Within(next, rec.provider) = "false"
                         ELSE /\ next.pc = "commit"
                              /\ next.currentCount =
                                     IF own \in DOMAIN kv THEN <<kv[own]>> ELSE <<>>

\* the only request of an identity is accepted by the anthropic quota and
\* stores 1, whatever the requests of other identities do
C19_Alone ==
    \A email \in Identities :
        NumberOf({rec \in Handling : rec.email = email}) = 1 =>
            \A rec \in Handling :
                rec.email = email =>
                    /\ rec.withinAnthropicLimit # "false"
                    /\ rec.withinAnthropicLimit = "true" =>
                           Stored(kv, <<"rate_limit", "anthropic", email>>) = 1

\* C19: quota keys are independent: a checkRateLimit call for (provider,
\* identity) reads and writes only that key, the counters of other
\* identities and of the other provider are unchanged by it, and requests on
\* other keys do not affect its accept/reject decision
C19_KeysIndependent == []C19_Alone /\ [][C19_Step]_vars

\* an identity's only request was accepted, and stored 1, with the anthropic
\* counter of another identity at its maximum
C19_Witness ==
    \E r1, r2 \in Handling :
        /\ r1.email # r2.email
        /\ r1.withinAnthropicLimit = "true"
        /\ Stored(kv, <<"rate_limit", "anthropic", r1.email>>) = AnthropicMaxRequests
        /\ r2.withinAnthropicLimit = "true"
        /\ NumberOf({rec \in Handling : rec.email = r2.email}) = 1
        /\ Stored(kv, <<"rate_limit", "anthropic", r2.email>>) = 1

\* C20: a counter present in the store lies between 1 and the maximum of its
\* provider, in every interleaving of checkRateLimit calls, also when more
\* calls than the maximum were accepted
C20_CounterWithinBounds ==
    \A key \in DOMAIN kv : 1 <= kv[key] /\ kv[key] <= MaxRequests(key[2])

\* more calls than the maximum were accepted on one anthropic key, whose
\* counter stands at the maximum
C20_Witness ==
    \E email \in Identities :
        /\ NumberOf(Accepted("anthropic", email)) > AnthropicMaxRequests
        /\ Counter("anthropic", email) = AnthropicMaxRequests

(***************************************************************************)
(* Termination of the two-provider route handler.                          *)
(***************************************************************************)
\* the responses with which a request to the two-provider variant can end
Outcomes ==
    {ValidationResponse} \cup {TaggedResponse(provider) : provider \in Providers}
        \cup {CatchResponse(error) : error \in ProviderErrors \cup {BothExceededError}}

\* a request in progress has no response yet; a finished one has one of the
\* outcomes, the 400 exactly when it carried no email, and a success body
\* never comes with an error status
C21_OneOutcome ==
    \A rec \in Handling :
        /\ rec.pc # "done" => rec.response = NoResponse
        /\ rec.pc = "done" =>
               /\ rec.response \in Outcomes
               /\ rec.response = ValidationResponse <=> MissingEmail(rec)
               /\ rec.response.kind = "ok" =>
                      rec.response.status = 0 /\ rec.response.provider \in Providers
               /\ rec.response.kind = "error" =>
                      rec.response.status >= 400 /\ rec.response.provider = ""

\* a response, once set, stays: a finished request takes no further step
C21_Step ==
    \A rec \in Handling :
        rec.pc = "done" => CopiesIn(rec, reqs') >= CopiesIn(rec, reqs)

\* C21: every request to the two-provider variant ends, provided the store
\* and the provider calls return, with exactly one outcome: the 400
\* validation error, a success tagged with one provider, or an error
\* response; none ends without a response, none with both a success and an
\* error
C21_ExactlyOneOutcome ==
    /\ []C21_OneOutcome
    /\ [][C21_Step]_vars
    /\ []<>Quiescent

\* three requests ended, one with each kind of outcome
C21_Witness ==
    /\ Quiescent
    /\ \E r1, r2, r3 \in Handling :
           /\ r1.response = ValidationResponse
           /\ r2.response.kind = "ok"
           /\ r3.response.kind = "error" /\ r3.response # ValidationResponse

====
